---- MODULE Spec2Model ----
(***************************************************************************)
(* pyFAI/gui/setup.py: the numpy.distutils build declaration of the        *)
(* pyFAI.gui package.                                                      *)
(*                                                                         *)
(* The module is either run as a script (line 45 is true and the file      *)
(* hands its configuration function to setup) or imported by a build       *)
(* driver that calls configuration(parent_package, top_path) itself.       *)
(* configuration() is modelled statement by statement, lines 33 to 42.     *)
(* Configuration objects live in a heap so that aliasing between the       *)
(* descriptors of different invocations is something the checks can see.   *)
(* The Configuration class is numpy's: a descriptor is modelled as the     *)
(* three constructor arguments it is given at line 33 plus the ordered     *)
(* list of names registered on it, and add_subpackage(name) as appending   *)
(* the name when the sibling directory exists and raising otherwise.       *)
(***************************************************************************)
EXTENDS Integers, Sequences, FiniteSets, TLC

VARIABLES
    mode,            \* "script": __name__ == "__main__"; "module": imported
    dirs,            \* sibling directories that exist next to setup.py
    main,            \* position of the module-level code / of its caller
    line,            \* line of configuration() about to run, 0: no active call
    parent_package,  \* argument of the active call
    top_path,        \* argument of the active call
    config,          \* local variable of the active call: a heap reference
    heap,            \* every Configuration object ever constructed
    calls,           \* one record per invocation of configuration()
    setupCalls,      \* how many times setup() was invoked
    setupArg,        \* what setup() was given as its configuration keyword
    setupSeen        \* the descriptors setup() got back from configuration()

vars == <<mode, dirs, main, line, parent_package, top_path, config, heap,
          calls, setupCalls, setupArg, setupSeen>>

\* ------------------------------------------------------------------ bounds

\* Invocations of configuration() in one run.
MaxCalls == 3

\* ------------------------------------------------------------- input values

\* Python's None, distinct from every path string below.
None == "None"

\* Defaults of configuration's parameters.
DefaultParentPackage == ""

DefaultTopPath == None

ParentPackages == {DefaultParentPackage, "myapp"}

TopPaths == {DefaultTopPath, "/src"}

\* The sibling directories the file expects.
AllDirs == {"test", "utils", "tasks", "model", "helper", "widgets", "dialog", "jupyter"}

\* Environments: every directory present, or exactly one missing.
DirSets == {AllDirs} \cup {AllDirs \ {d} : d \in AllDirs}

\* ------------------------------------------------------- external framework

\* What a constructor call with a shared (class-level) subpackage list would
\* build: the new object starts with what the previous one accumulated.
Configuration_shared(package_name, parent_name, top) ==
    [package_name |-> package_name,
     parent_name  |-> parent_name,
     top_path     |-> top,
     subpackages  |-> IF heap = <<>> THEN <<>> ELSE heap[Len(heap)].subpackages]

\* Parent and path arguments given in the wrong positions.
Configuration_swapped(package_name, parent_name, top) ==
    [package_name |-> package_name,
     parent_name  |-> top,
     top_path     |-> parent_name,
     subpackages  |-> <<>>]

\* The package name taken from the parent argument.
Configuration_parentname(package_name, parent_name, top) ==
    [package_name |-> parent_name,
     parent_name  |-> parent_name,
     top_path     |-> top,
     subpackages  |-> <<>>]

\* Configuration('gui', parent_package, top_path): a new, empty descriptor
\* holding the three arguments of the call.
Configuration(package_name, parent_name, top) ==
    [package_name |-> package_name,
     parent_name  |-> parent_name,
     top_path     |-> top,
     subpackages  |-> <<>>]

\* A handler that swallows the exception and goes on with the next statement.
OnException_swallow(l) == l + 1

\* Where control goes when the call at line l raises: no try statement
\* encloses any line of configuration(), so the exception leaves the function
\* (0: the frame is dropped).
OnException(l) == 0

\* --------------------------------------------------------------- bookkeeping

cur == Len(calls)

InCall == line # 0

Enter(P, T) ==
    /\ line' = 33
    /\ parent_package' = P
    /\ top_path' = T
    /\ config' = 0
    /\ calls' = Append(calls, [parent_package |-> P, top_path |-> T,
                               adds |-> <<>>, failed |-> FALSE,
                               outcome |-> "running", value |-> 0])

\* The active frame is dropped: locals are gone.
DropFrame ==
    /\ line' = 0
    /\ parent_package' = DefaultParentPackage
    /\ top_path' = DefaultTopPath
    /\ config' = 0

Init ==
    /\ mode \in {"script", "module"}
    /\ dirs \in DirSets
    /\ main = "line45"
    /\ line = 0
    /\ parent_package = DefaultParentPackage
    /\ top_path = DefaultTopPath
    /\ config = 0
    /\ heap = <<>>
    /\ calls = <<>>
    /\ setupCalls = 0
    /\ setupArg = [kind |-> "none", ref |-> 0]
    /\ setupSeen = <<>>

\* ------------------------------------------------------------ module level

\* if __name__ == "__main__":
Line45 ==
    /\ main = "line45"
    /\ main' = IF mode = "script" THEN "line46" ELSE "imported"
    /\ UNCHANGED <<mode, dirs, line, parent_package, top_path, config, heap,
                   calls, setupCalls, setupArg, setupSeen>>

\* from numpy.distutils.core import setup; setup(configuration=configuration)
\* The function object itself is the argument; nothing has been called yet.
Line47 ==
    /\ main = "line46"
    /\ main' = "in_setup"
    /\ setupCalls' = setupCalls + 1
    /\ setupArg' = [kind |-> "function", ref |-> 0]
    /\ UNCHANGED <<mode, dirs, line, parent_package, top_path, config, heap,
                   calls, setupSeen>>

\* setup() calls the function it was given, with no arguments.
SetupCallsConfiguration ==
    /\ main = "in_setup"
    /\ ~InCall
    /\ cur < MaxCalls
    /\ Enter(DefaultParentPackage, DefaultTopPath)
    /\ UNCHANGED <<mode, dirs, main, heap, setupCalls, setupArg, setupSeen>>

\* setup() returns and the script ends.
SetupReturns ==
    /\ main = "in_setup"
    /\ ~InCall
    /\ main' = "exit"
    /\ UNCHANGED <<mode, dirs, line, parent_package, top_path, config, heap,
                   calls, setupCalls, setupArg, setupSeen>>

\* A build driver that imported the module calls configuration(P, T).
DriverCallsConfiguration ==
    /\ main = "imported"
    /\ ~InCall
    /\ cur < MaxCalls
    /\ \E P \in ParentPackages, T \in TopPaths : Enter(P, T)
    /\ UNCHANGED <<mode, dirs, main, heap, setupCalls, setupArg, setupSeen>>

\* ------------------------------------------------------- configuration()

\* A module-level descriptor built on the first call and reused afterwards.
Line33_cached ==
    /\ line = 33
    /\ IF heap = <<>>
       THEN /\ heap' = <<Configuration("gui", parent_package, top_path)>>
            /\ config' = 1
       ELSE /\ heap' = heap
            /\ config' = Len(heap)
    /\ line' = 34
    /\ UNCHANGED <<mode, dirs, main, parent_package, top_path, calls,
                   setupCalls, setupArg, setupSeen>>

\* config = Configuration('gui', parent_package, top_path)
\* A new object is allocated and bound to the local name config.
Line33 ==
    /\ line = 33
    /\ heap' = Append(heap, Configuration("gui", parent_package, top_path))
    /\ config' = Len(heap) + 1
    /\ line' = 34
    /\ UNCHANGED <<mode, dirs, main, parent_package, top_path, calls,
                   setupCalls, setupArg, setupSeen>>

\* config.add_subpackage(name) at line l.  The call is recorded; when the
\* directory exists the name is appended to the object config refers to and
\* control falls through to the next line, otherwise the framework raises
\* and control goes where OnException says.
AddSubpackage(l, name) ==
    /\ line = l
    /\ IF name \in dirs
       THEN /\ heap' = [heap EXCEPT ![config].subpackages = Append(@, name)]
            /\ calls' = [calls EXCEPT ![cur].adds = Append(@, name)]
            /\ line' = l + 1
            /\ UNCHANGED <<main, parent_package, top_path, config>>
       ELSE /\ heap' = heap
            /\ IF OnException(l) = 0
               THEN /\ calls' = [calls EXCEPT ![cur].adds = Append(@, name),
                                              ![cur].failed = TRUE,
                                              ![cur].outcome = "raised"]
                    /\ DropFrame
                    /\ main' = IF main = "in_setup" THEN "crashed" ELSE main
               ELSE /\ calls' = [calls EXCEPT ![cur].adds = Append(@, name),
                                              ![cur].failed = TRUE]
                    /\ line' = OnException(l)
                    /\ UNCHANGED <<main, parent_package, top_path, config>>
    /\ UNCHANGED <<mode, dirs, setupCalls, setupArg, setupSeen>>

\* A statement that does nothing.
Pass(l) ==
    /\ line = l
    /\ line' = l + 1
    /\ UNCHANGED <<mode, dirs, main, parent_package, top_path, config, heap,
                   calls, setupCalls, setupArg, setupSeen>>

\* return config at line l: the caller receives the reference; when the
\* caller is setup(), setup sees the descriptor as it is at this moment.
ReturnAt(l) ==
    /\ line = l
    /\ calls' = [calls EXCEPT ![cur].outcome = "returned", ![cur].value = config]
    /\ setupSeen' = IF main = "in_setup" THEN Append(setupSeen, heap[config])
                                         ELSE setupSeen
    /\ DropFrame
    /\ UNCHANGED <<mode, dirs, main, heap, setupCalls, setupArg>>

Line34 == AddSubpackage(34, "test")

Line35 == AddSubpackage(35, "utils")

\* 'utils' registered a second time in place of 'tasks'.
Line36_dup == AddSubpackage(36, "utils")

Line36 == AddSubpackage(36, "tasks")

Line37 == AddSubpackage(37, "model")

Line38 == AddSubpackage(38, "helper")

\* The registration of 'widgets' left out.
Line39_skip == Pass(39)

Line39 == AddSubpackage(39, "widgets")

\* The return statement placed before the last two registrations.
Line40_return == ReturnAt(40)

Line40 == AddSubpackage(40, "dialog")

Line41 == AddSubpackage(41, "jupyter")

\* A statement that never completes in place of the return.
Line42_hang ==
    /\ line = 42
    /\ UNCHANGED vars

Line42 == ReturnAt(42)

\* One statement of the active call of configuration().
Body ==
    \/ Line33 \/ Line34 \/ Line35 \/ Line36 \/ Line37
    \/ Line38 \/ Line39 \/ Line40 \/ Line41 \/ Line42

Next ==
    \/ Line45
    \/ Line47
    \/ SetupCallsConfiguration
    \/ SetupReturns
    \/ DriverCallsConfiguration
    \/ Line33 \/ Line34 \/ Line35 \/ Line36 \/ Line37
    \/ Line38 \/ Line39 \/ Line40 \/ Line41 \/ Line42

Spec == Init /\ [][Next]_vars

\* The interpreter runs an active call to its end: a statement that can run
\* does run.
FairSpec == Spec /\ WF_vars(Body)

\* ------------------------------------------------------------ properties

\* The subpackage sequence the specification states.
Expected == <<"test", "utils", "tasks", "model", "helper", "widgets", "dialog", "jupyter">>

Returned(i) == calls[i].outcome = "returned"

\* The descriptor invocation i returned.
Descriptor(i) == heap[calls[i].value]

TypeOK ==
    /\ mode \in {"script", "module"}
    /\ dirs \in DirSets
    /\ main \in {"line45", "line46", "imported", "in_setup", "exit", "crashed"}
    /\ line \in {0} \cup 33..42
    /\ config \in 0..Len(heap)
    /\ Len(calls) <= MaxCalls
    /\ \A i \in 1..Len(calls) : calls[i].value \in 0..Len(heap)

\* C1: every descriptor configuration(P, T) returns, for every P and T
\* (defaults included), lists exactly test, utils, tasks, model, helper,
\* widgets, dialog, jupyter in that order, whatever P and T are.
C1_SubpackageList ==
    \A i \in 1..Len(calls) :
        Returned(i) => Descriptor(i).subpackages = Expected

\* C1 happens: a call with the defaults and a call with other arguments have
\* both returned.
C1_Witness ==
    \E i, j \in 1..Len(calls) :
        /\ Returned(i) /\ Returned(j)
        /\ calls[i].parent_package = "" /\ calls[i].top_path = None
        /\ calls[j].parent_package = "myapp" /\ calls[j].top_path = "/src"

C3_SameArgsSameList ==
    \A i, j \in 1..Len(calls) :
        (/\ Returned(i) /\ Returned(j)
         /\ calls[i].parent_package = calls[j].parent_package
         /\ calls[i].top_path = calls[j].top_path)
        => Descriptor(i).subpackages = Descriptor(j).subpackages

\* C3 happens: the first and third invocation have the same arguments, the
\* second has others, and all three returned.
C3_Witness ==
    /\ Len(calls) >= 3
    /\ Returned(1) /\ Returned(2) /\ Returned(3)
    /\ calls[1].parent_package = calls[3].parent_package
    /\ calls[1].top_path = calls[3].top_path
    /\ calls[2].parent_package # calls[1].parent_package

\* C4: an invocation in which a registration call failed ends by raising and
\* never returns a descriptor, and an invocation raises only because a
\* registration call failed.
C4_FailurePropagates ==
    \A i \in 1..Len(calls) :
        /\ calls[i].failed => (calls[i].outcome = "raised" /\ calls[i].value = 0)
        /\ calls[i].outcome = "raised" => calls[i].failed

\* C4 happens: a registration failed after earlier ones had succeeded.
C4_Witness ==
    \E i \in 1..Len(calls) :
        /\ calls[i].failed
        /\ Len(calls[i].adds) >= 2
        /\ calls[i].outcome = "raised"

\* C5 as stated: whenever setup has been invoked, what it was given is a
\* descriptor already populated with all eight subpackages.
C5_Original ==
    setupCalls >= 1 =>
        /\ setupArg.kind = "descriptor"
        /\ setupArg.ref \in 1..Len(heap)
        /\ heap[setupArg.ref].subpackages = Expected

\* C5 as amended: run as a script, the file invokes setup exactly once and
\* gives it the configuration function itself; imported, it never invokes
\* setup; and every descriptor setup obtains by calling that function is
\* populated with all eight subpackages when setup receives it.
C5_SetupHandOff ==
    /\ setupCalls <= 1
    /\ mode = "module" => setupCalls = 0
    /\ main \in {"in_setup", "exit", "crashed"} =>
           (setupCalls = 1 /\ setupArg.kind = "function")
    /\ \A k \in 1..Len(setupSeen) : setupSeen[k].subpackages = Expected

\* C5 happens: the script ran to its end and setup received a descriptor.
C5_Witness ==
    /\ mode = "script"
    /\ main = "exit"
    /\ setupCalls = 1
    /\ Len(setupSeen) >= 1

\* C6: each invocation returns an object of its own, and no later step
\* changes a descriptor that was returned (name, parent, path, list) or the
\* record of the invocation that returned it.
C6_NoMutationAfterReturn ==
    /\ [](\A i, j \in 1..Len(calls) :
             (Returned(i) /\ Returned(j) /\ i # j) => calls[i].value # calls[j].value)
    /\ [][\A i \in 1..Len(calls) :
             Returned(i) => /\ heap'[calls[i].value] = heap[calls[i].value]
                            /\ calls'[i] = calls[i]]_vars

\* C6 happens: a second invocation with other arguments returned while the
\* first descriptor still is what its invocation built.
C6_Witness ==
    /\ Len(calls) >= 2
    /\ Returned(1) /\ Returned(2)
    /\ calls[1].parent_package # calls[2].parent_package
    /\ Descriptor(1).parent_name = calls[1].parent_package
    /\ Descriptor(2).parent_name = calls[2].parent_package
    /\ Len(Descriptor(1).subpackages) = Len(Expected)

\* C7: an invocation in which no registration fails ends by returning; the
\* body runs line after line, and an invocation that returned made exactly
\* the eight add_subpackage calls, each once.
C7_Terminates ==
    /\ \A n \in 1..MaxCalls :
           (InCall /\ cur = n /\ dirs = AllDirs) ~> (~InCall /\ cur = n /\ Returned(n))
    /\ [][(line # 0 /\ line' # 0) => line' = line + 1]_vars
    /\ [](\A i \in 1..Len(calls) :
             Returned(i) => (calls[i].adds = Expected /\ ~calls[i].failed))

\* C7 happens: an invocation with every directory present returned after
\* eight registration calls.
C7_Witness ==
    /\ dirs = AllDirs
    /\ ~InCall
    /\ cur >= 1
    /\ Returned(cur)
    /\ Len(calls[cur].adds) = 8

\* C8: at every point of an invocation the list of the descriptor under
\* construction is the first k names of the fixed sequence, k being the
\* number of registration lines passed.
C8_PrefixAtEveryPoint ==
    (InCall /\ line >= 34) =>
        heap[config].subpackages = SubSeq(Expected, 1, line - 34)

\* C8 happens: an invocation stands between the fourth and the fifth
\* registration.
C8_Witness ==
    /\ line = 38
    /\ Len(heap[config].subpackages) = 4

\* C9: the returned descriptor's own package name is 'gui', whatever P and
\* T are.
C9_PackageName ==
    \A i \in 1..Len(calls) :
        Returned(i) => Descriptor(i).package_name = "gui"

\* C9 happens: an invocation with a non-empty parent and a path returned.
C9_Witness ==
    \E i \in 1..Len(calls) :
        /\ Returned(i)
        /\ calls[i].parent_package = "myapp" /\ calls[i].top_path = "/src"
        /\ Descriptor(i).package_name = "gui"

====
